---- MODULE Spec2Model ----
(***************************************************************************)
(* Model of search_system/src/main.rs: the Catalog with its three indexes  *)
(* (HashIndex, NameBTree, RecGraph) and the tokenizer.                     *)
(*                                                                         *)
(* Strings are sequences of character codes (ASCII), so that lower-casing, *)
(* word splitting, prefix tests and the byte-wise ordering of BTreeMap     *)
(* keys are computed rather than assumed.  A HashMap is a function whose    *)
(* DOMAIN is the set of keys present; a HashSet is a set; a Vec is a       *)
(* sequence.  The iteration order of a HashSet is not fixed by the code,   *)
(* so every operation that iterates one takes the order as a parameter     *)
(* that the calling action chooses nondeterministically.                   *)
(* Product.description is never read by any operation and is left out.     *)
(***************************************************************************)
EXTENDS Integers, Sequences, FiniteSets, TLC

VARIABLES products, next_id, index, adj, tree, call, ids, out

vars == <<products, next_id, index, adj, tree, call, ids, out>>

\* ---- bounds -------------------------------------------------------------
MaxItems == 2
MaxId == 4
MaxEdges == 3
MaxLimit == 2

\* ---- inputs -------------------------------------------------------------
\* Products a caller may pass to add_product (name, brand, category):
\*   "Ab" / "B" / "a b"      "a B" / "" / "A-"
ProductInputs ==
    { [name |-> <<65, 98>>,     brand |-> <<66>>, category |-> <<97, 32, 98>>],
      [name |-> <<97, 32, 66>>, brand |-> <<>>,   category |-> <<65, 45>>] }

\* ids a caller may put in the Product it passes (main.rs passes 0)
CallerIds == {0, 2}

\* query texts: "", "- ", "ab", "B a", "a c", "c"
QueryInputs ==
    { <<>>, <<45, 32>>, <<97, 98>>, <<66, 32, 97>>, <<97, 32, 99>>, <<99>> }

\* prefixes: "", "A", "ab", "a ", "c"
PrefixInputs == { <<>>, <<65>>, <<97, 98>>, <<97, 32>>, <<99>> }

RelationIds == 1..MaxId
Limits == 0..MaxLimit

\* ---- generic helpers ----------------------------------------------------
Range(s) == { s[i] : i \in DOMAIN s }

Take(s, n) == IF n >= Len(s) THEN s ELSE SubSeq(s, 1, n)

\* all the orders in which a HashSet holding the elements S can be iterated
Orders(S) ==
    { f \in [1..Cardinality(S) -> S] :
        \A i, j \in 1..Cardinality(S) : i # j => f[i] # f[j] }

\* HashMap::entry(k).or_default().insert(v) on a map of HashSets
EntryInsert(m, k, v) ==
    IF k \in DOMAIN m
    THEN [m EXCEPT ![k] = @ \cup {v}]
    ELSE [x \in DOMAIN m \cup {k} |-> IF x = k THEN {v} ELSE m[x]]

\* ---- strings ------------------------------------------------------------
LowerChar(c) == IF c \in 65..90 THEN c + 32 ELSE c

to_lowercase(s) == [i \in 1..Len(s) |-> LowerChar(s[i])]

\* the class \w of the regex crate, restricted to ASCII
IsWordChar(c) == c \in (48..57) \cup (65..90) \cup {95} \cup (97..122)

starts_with(k, prefix) ==
    /\ Len(prefix) <= Len(k)
    /\ \A i \in 1..Len(prefix) : k[i] = prefix[i]

\* Ord for String: lexicographic on the bytes
RECURSIVE StrLess(_, _)
StrLess(a, b) ==
    IF b = <<>> THEN FALSE
    ELSE IF a = <<>> THEN TRUE
    ELSE IF Head(a) # Head(b) THEN Head(a) < Head(b)
    ELSE StrLess(Tail(a), Tail(b))

StrLeq(a, b) == a = b \/ StrLess(a, b)

RECURSIVE SplitWords(_, _, _)
SplitWords(s, cur, acc) ==
    IF s = <<>>
    THEN IF cur = <<>> THEN acc ELSE Append(acc, cur)
    ELSE IF IsWordChar(Head(s))
         THEN SplitWords(Tail(s), Append(cur, Head(s)), acc)
         ELSE SplitWords(Tail(s), <<>>,
                         IF cur = <<>> THEN acc ELSE Append(acc, cur))

tokenize(s) == SplitWords(to_lowercase(s), <<>>, <<>>)

\* ---- HashIndex ----------------------------------------------------------
RECURSIVE InsertTokens(_, _, _)
InsertTokens(idx, tokens, id) ==
    IF tokens = <<>> THEN idx
    ELSE InsertTokens(EntryInsert(idx, Head(tokens), id), Tail(tokens), id)

\* variant: only the name is tokenized
index_product_name_only(idx, p) ==
    InsertTokens(idx, tokenize(p.name), p.id)

index_product(idx, p) ==
    InsertTokens(idx,
                 tokenize(p.name) \o tokenize(p.brand) \o tokenize(p.category),
                 p.id)

\* tokens.iter().filter_map(|t| self.index.get(t)).collect()
RECURSIVE FoundSets(_, _)
FoundSets(idx, tokens) ==
    IF tokens = <<>> THEN <<>>
    ELSE (IF Head(tokens) \in DOMAIN idx THEN <<idx[Head(tokens)]>> ELSE <<>>)
         \o FoundSets(idx, Tail(tokens))

\* the loop over sets.iter().skip(1), with its break on an empty result
RECURSIVE IntersectAll(_, _)
IntersectAll(result, sets) ==
    IF sets = <<>> THEN result
    ELSE LET r == result \cap Head(sets)
         IN  IF r = {} THEN r ELSE IntersectAll(r, Tail(sets))

\* the HashSet that search_tokens_and turns into its Vec
search_tokens_and(idx, tokens) ==
    IF tokens = <<>> THEN {}
    ELSE LET sets == FoundSets(idx, tokens)
         IN  IF sets = <<>> THEN {}
             ELSE IntersectAll(Head(sets), Tail(sets))

\* ---- RecGraph -----------------------------------------------------------
\* variant: HashMap::insert of a fresh set instead of entry().or_default()
add_edge_overwrite(g, a, b) ==
    IF a = b THEN g
    ELSE LET g1 == [x \in DOMAIN g \cup {a} |-> IF x = a THEN {b} ELSE g[x]]
         IN  [x \in DOMAIN g1 \cup {b} |-> IF x = b THEN {a} ELSE g1[x]]

\* variant: only the a -> b direction is recorded
add_edge_one_way(g, a, b) ==
    IF a = b THEN g
    ELSE EntryInsert(g, a, b)

\* variant: no early return for a == b
add_edge_no_guard(g, a, b) ==
    EntryInsert(EntryInsert(g, a, b), b, a)

add_edge(g, a, b) ==
    IF a = b THEN g
    ELSE EntryInsert(EntryInsert(g, a, b), b, a)

Neighbors(g, id) == IF id \in DOMAIN g THEN g[id] ELSE {}

Degree(g, nid) == IF nid \in DOMAIN g THEN Cardinality(g[nid]) ELSE 0

\* slice::sort_by is stable: an element goes behind every element that
\* precedes it and compares greater or equal
InsertByDegree(sorted, x) ==
    LET n == Cardinality({ i \in 1..Len(sorted) : sorted[i][2] >= x[2] })
    IN  SubSeq(sorted, 1, n) \o <<x>> \o SubSeq(sorted, n + 1, Len(sorted))

RECURSIVE SortByDegreeDesc(_, _)
SortByDegreeDesc(scored, sorted) ==
    IF scored = <<>> THEN sorted
    ELSE SortByDegreeDesc(Tail(scored), InsertByDegree(sorted, Head(scored)))

\* variant: the sort is left out
recommend_unsorted(g, product_id, limit, iter) ==
    Take(iter, limit)

\* iter is the order in which the neighbor HashSet is iterated
recommend(g, product_id, limit, iter) ==
    LET scored == [i \in 1..Len(iter) |-> <<iter[i], Degree(g, iter[i])>>]
        sorted == SortByDegreeDesc(scored, <<>>)
    IN  Take([i \in 1..Len(sorted) |-> sorted[i][1]], limit)

\* ---- NameBTree ----------------------------------------------------------
\* variant: the id goes to the front of the list
insert_front(t, name, id) ==
    LET k == to_lowercase(name)
    IN  IF k \in DOMAIN t
        THEN [t EXCEPT ![k] = <<id>> \o @]
        ELSE [x \in DOMAIN t \cup {k} |-> IF x = k THEN <<id>> ELSE t[x]]

insert(t, name, id) ==
    LET k == to_lowercase(name)
    IN  IF k \in DOMAIN t
        THEN [t EXCEPT ![k] = Append(@, id)]
        ELSE [x \in DOMAIN t \cup {k} |-> IF x = k THEN <<id>> ELSE t[x]]

RECURSIVE Ascending(_)
Ascending(S) ==
    IF S = {} THEN <<>>
    ELSE LET m == CHOOSE x \in S : \A y \in S : StrLeq(x, y)
         IN  <<m>> \o Ascending(S \ {m})

\* self.tree.range(prefix..): the keys not below prefix, ascending
RangeFrom(t, prefix) == Ascending({ k \in DOMAIN t : StrLeq(prefix, k) })

\* for id in v { out.push(*id); if out.len() >= limit { return out; } }
RECURSIVE PushIds(_, _, _)
PushIds(v, o, limit) ==
    IF v = <<>> THEN [out |-> o, done |-> FALSE]
    ELSE LET o2 == Append(o, Head(v))
         IN  IF Len(o2) >= limit THEN [out |-> o2, done |-> TRUE]
             ELSE PushIds(Tail(v), o2, limit)

RECURSIVE ScanKeys(_, _, _, _, _)
ScanKeys(t, keys, prefix, limit, o) ==
    IF keys = <<>> THEN o
    ELSE IF ~starts_with(Head(keys), prefix) THEN o
    ELSE LET r == PushIds(t[Head(keys)], o, limit)
         IN  IF r.done THEN r.out
             ELSE ScanKeys(t, Tail(keys), prefix, limit, r.out)

search_prefix(t, prefix, limit) ==
    LET p == to_lowercase(prefix)
    IN  ScanKeys(t, RangeFrom(t, p), p, limit, <<>>)

\* ---- Catalog ------------------------------------------------------------
\* ids.iter().filter_map(|id| self.products.get(id)).collect()
Resolve(prods, s) ==
    LET f == SelectSeq(s, LAMBDA i : i \in DOMAIN prods)
    IN  [k \in 1..Len(f) |-> prods[f[k]]]

Init ==
    /\ products = <<>>
    /\ next_id = 1
    /\ index = <<>>
    /\ adj = <<>>
    /\ tree = <<>>
    /\ call = [op |-> "idle"]
    /\ ids = <<>>
    /\ out = <<>>

\* variant: the id the caller supplied is kept
add_product_caller_id(p, caller_id) ==
    /\ next_id <= MaxItems
    /\ LET q == [p EXCEPT !.id = caller_id]
       IN  /\ next_id' = next_id + 1
           /\ index' = index_product(index, q)
           /\ tree' = insert(tree, q.name, q.id)
           /\ products' = [x \in DOMAIN products \cup {q.id} |->
                             IF x = q.id THEN q ELSE products[x]]
           /\ call' = [op |-> "add_product", id |-> q.id]
    /\ ids' = <<>>
    /\ out' = <<>>
    /\ UNCHANGED adj

add_product(p, caller_id) ==
    /\ next_id <= MaxItems
    /\ LET q == [[p EXCEPT !.id = caller_id] EXCEPT !.id = next_id]
       IN  /\ next_id' = next_id + 1
           /\ index' = index_product(index, q)
           /\ tree' = insert(tree, q.name, q.id)
           /\ products' = [x \in DOMAIN products \cup {q.id} |->
                             IF x = q.id THEN q ELSE products[x]]
           /\ call' = [op |-> "add_product", id |-> q.id]
    /\ ids' = <<>>
    /\ out' = <<>>
    /\ UNCHANGED adj

add_recommendation_edge(a, b) ==
    /\ adj' = add_edge(adj, a, b)
    /\ call' = [op |-> "add_recommendation_edge", a |-> a, b |-> b]
    /\ ids' = <<>>
    /\ out' = <<>>
    /\ UNCHANGED <<products, next_id, index, tree>>

search_tokens(query) ==
    /\ \E iter \in Orders(search_tokens_and(index, tokenize(query))) :
          /\ ids' = iter
          /\ out' = Resolve(products, iter)
    /\ call' = [op |-> "search_tokens", query |-> query]
    /\ UNCHANGED <<products, next_id, index, adj, tree>>

search_prefix_ordered(prefix, limit) ==
    /\ ids' = search_prefix(tree, prefix, limit)
    /\ out' = Resolve(products, ids')
    /\ call' = [op |-> "search_prefix_ordered", prefix |-> prefix,
                limit |-> limit]
    /\ UNCHANGED <<products, next_id, index, adj, tree>>

recommend_for(product_id, limit) ==
    /\ \E iter \in Orders(Neighbors(adj, product_id)) :
          /\ ids' = recommend(adj, product_id, limit, iter)
          /\ out' = Resolve(products, ids')
    /\ call' = [op |-> "recommend_for", product_id |-> product_id,
                limit |-> limit]
    /\ UNCHANGED <<products, next_id, index, adj, tree>>

\* The caller (main) makes one call at a time and is done with what it
\* returned before it makes the next; the Vec<&Product> of a search borrows
\* the Catalog, so no &mut self method can run while it is alive.
\* call, ids and out hold the call just made and what it returned.
ResultHeld == call.op # "idle"

\* the caller is done with the call (for p in res { ... })
DropResult ==
    /\ ResultHeld
    /\ call' = [op |-> "idle"]
    /\ ids' = <<>>
    /\ out' = <<>>
    /\ UNCHANGED <<products, next_id, index, adj, tree>>

AddProduct ==
    /\ ~ResultHeld
    /\ \E p \in ProductInputs, caller_id \in CallerIds :
        add_product([id |-> 0, name |-> p.name, brand |-> p.brand,
                     category |-> p.category], caller_id)

\* the relations recorded in g, as unordered pairs
Edges(g) == UNION { { {x, y} : y \in g[x] } : x \in DOMAIN g }

AddRecommendationEdge ==
    /\ ~ResultHeld
    /\ \E a, b \in RelationIds :
        /\ Cardinality(Edges(add_edge(adj, a, b))) <= MaxEdges
        /\ add_recommendation_edge(a, b)

SearchTokens ==
    /\ ~ResultHeld
    /\ \E query \in QueryInputs : search_tokens(query)

SearchPrefixOrdered ==
    /\ ~ResultHeld
    /\ \E prefix \in PrefixInputs, limit \in Limits :
        search_prefix_ordered(prefix, limit)

RecommendFor ==
    /\ ~ResultHeld
    /\ \E product_id \in RelationIds, limit \in Limits :
        recommend_for(product_id, limit)

Next ==
    \/ AddProduct
    \/ AddRecommendationEdge
    \/ SearchTokens
    \/ SearchPrefixOrdered
    \/ RecommendFor
    \/ DropResult

Spec == Init /\ [][Next]_vars

\* ---- properties ---------------------------------------------------------
Min(a, b) == IF a <= b THEN a ELSE b

\* the tokens of the indexed fields of an item
ItemTokens(p) ==
    Range(tokenize(p.name)) \cup Range(tokenize(p.brand))
        \cup Range(tokenize(p.category))

IsSearchTokens == call.op = "search_tokens"
IsSearchPrefix == call.op = "search_prefix_ordered"
IsRecommend == call.op = "recommend_for"
IsAddEdge == call.op = "add_recommendation_edge"
IsAddProduct == call.op = "add_product"

\* C1: search_tokens(query) returns exactly the stored items whose name,
\* brand and category tokens include every token of the query, and nothing
\* when the query has no token or has a token indexed for no item.
C1_TokenAndSemantics ==
    IsSearchTokens =>
        LET toks == Range(tokenize(call.query))
            hits == { i \in DOMAIN products : toks \subseteq ItemTokens(products[i]) }
        IN  /\ Len(out) = Cardinality(Range(out))
            /\ Range(out) = IF toks = {} THEN {}
                            ELSE { products[i] : i \in hits }

\* C2: search_prefix(prefix, limit) never returns more than limit items;
\* limit = 0 gives an empty result.
C2_PrefixLimitBound ==
    IsSearchPrefix => Len(out) <= call.limit

\* item i comes before item j in the order of lower-cased name, equal names
\* in insertion order (ids are handed out in insertion order)
NameBefore(i, j) ==
    LET ni == to_lowercase(products[i].name)
        nj == to_lowercase(products[j].name)
    IN  StrLess(ni, nj) \/ (ni = nj /\ i < j)

\* C3: search_prefix returns only items whose lower-cased name starts with
\* the lower-cased prefix, in ascending order of lower-cased name with equal
\* names in insertion order, and skips no matching item that sorts before a
\* returned one.
C3_PrefixMembershipAndOrder ==
    IsSearchPrefix =>
        LET p == to_lowercase(call.prefix)
            matching == { i \in DOMAIN products :
                            starts_with(to_lowercase(products[i].name), p) }
        IN  /\ \A k \in 1..Len(out) :
                  /\ out[k].id \in matching
                  /\ out[k] = products[out[k].id]
            /\ \A k, l \in 1..Len(out) :
                  k < l => NameBefore(out[k].id, out[l].id)
            /\ \A k \in 1..Len(out) : \A j \in matching :
                  NameBefore(j, out[k].id) =>
                      \E l \in 1..(k - 1) : out[l].id = j

C3_Witness ==
    /\ IsSearchPrefix
    /\ call.prefix = <<65>>
    /\ Len(out) = 2
    /\ out[1].id > out[2].id

C4_Ids ==
    /\ DOMAIN products = 1..(next_id - 1)
    /\ \A i \in DOMAIN products : products[i].id = i /\ i < next_id

C4_Step ==
    (next_id' # next_id \/ products' # products) =>
        LET k == Cardinality(DOMAIN products) + 1
        IN  /\ call'.op = "add_product"
            /\ call'.id = k
            /\ next_id' = next_id + 1
            /\ DOMAIN products' = DOMAIN products \cup {k}
            /\ products'[k].id = k
            /\ \A i \in DOMAIN products : products'[i] = products[i]

\* C4: the k-th add_product stores its record under id k whatever id the
\* caller supplied and whatever other calls are interleaved; stored ids are
\* 1, 2, ... without gap or reuse and all below next_id.
C4_IdMonotonicity == []C4_Ids /\ [][C4_Step]_vars

C4_Witness ==
    /\ IsAddProduct
    /\ call.id = 2
    /\ adj # <<>>
    /\ products[2].name # products[1].name

\* C5: neighbor sets are symmetric, and after add_relation(a, b) with
\* a # b each of a, b is among the other's recommendation candidates.
C5_Symmetry ==
    /\ \A a \in DOMAIN adj : \A b \in adj[a] :
          b \in DOMAIN adj /\ a \in adj[b]
    /\ (IsAddEdge /\ call.a # call.b) =>
          /\ \A iter \in Orders(Neighbors(adj, call.a)) :
                call.b \in Range(recommend(adj, call.a, MaxId, iter))
          /\ \A iter \in Orders(Neighbors(adj, call.b)) :
                call.a \in Range(recommend(adj, call.b, MaxId, iter))

C5_Witness ==
    /\ IsAddEdge
    /\ call.a # call.b
    /\ Cardinality(Neighbors(adj, call.a)) >= 2
    /\ Cardinality(Neighbors(adj, call.b)) >= 2

\* C6: the graph's recommend(i, limit) returns min(limit, number of
\* neighbors) distinct neighbors of i, degrees non-increasing, no omitted
\* neighbor of higher degree than a returned one; nothing for an id with no
\* relations.
C6_Ranking ==
    IsRecommend =>
        LET n == Neighbors(adj, call.product_id)
        IN  /\ Len(ids) = Min(call.limit, Cardinality(n))
            /\ Range(ids) \subseteq n
            /\ Cardinality(Range(ids)) = Len(ids)
            /\ \A k, l \in 1..Len(ids) :
                  k < l => Degree(adj, ids[k]) >= Degree(adj, ids[l])
            /\ \A x \in n \ Range(ids) : \A k \in 1..Len(ids) :
                  Degree(adj, x) <= Degree(adj, ids[k])
            /\ (call.product_id \notin DOMAIN adj => ids = <<>>)

C6_Witness ==
    /\ IsRecommend
    /\ call.limit = 1
    /\ Len(ids) = 1
    /\ \E x \in Neighbors(adj, call.product_id) :
          Degree(adj, x) < Degree(adj, ids[1])

\* what Catalog::recommend_for can return for (i, limit) in this state
RecommendForOutcomes(i, limit) ==
    { Resolve(products, recommend(adj, i, limit, iter)) :
        iter \in Orders(Neighbors(adj, i)) }

C7_Step ==
    (/\ call'.op = "add_recommendation_edge"
     /\ (call'.a \notin DOMAIN products \/ call'.b \notin DOMAIN products)) =>
        \A i \in DOMAIN products : \A limit \in Limits :
            RecommendForOutcomes(i, limit)' = RecommendForOutcomes(i, limit)

\* C7: an add_relation naming an id that is not stored changes the result
\* of recommend(i, limit) for no stored id i and no limit.
C7_UnknownEdgesInert == [][C7_Step]_vars

\* C8: add_relation(a, b) twice, or followed by add_relation(b, a), leaves
\* the same neighbor sets as add_relation(a, b) once.
C8_Idempotent ==
    \A a, b \in RelationIds :
        LET once == add_edge(adj, a, b)
        IN  /\ add_edge(once, a, b) = once
            /\ add_edge(once, b, a) = once

C8_Witness ==
    /\ IsAddEdge
    /\ call.a # call.b
    /\ add_edge(adj, call.b, call.a) = adj
    /\ Cardinality(DOMAIN adj) >= 3

C9_NoSelfNeighbor ==
    /\ \A a \in DOMAIN adj : a \notin adj[a]
    /\ \A a \in RelationIds : add_edge(adj, a, a) = adj

C9_Step ==
    (call'.op = "add_recommendation_edge" /\ call'.a = call'.b) =>
        UNCHANGED <<adj, products, next_id, index, tree>>

\* C9: add_relation(a, a) changes no neighbor set, creates no entry for a,
\* and leaves the store and the other two indexes alone; no id is ever its
\* own neighbor.
C9_SelfRelationNoOp == []C9_NoSelfNeighbor /\ [][C9_Step]_vars

C9_Witness ==
    /\ IsAddEdge
    /\ call.a = call.b
    /\ call.a \notin DOMAIN adj
    /\ call.a \notin DOMAIN products
    /\ adj # <<>>
    /\ products # <<>>

\* the (token, id) pairs the inverted index holds
IndexPairs == UNION { { <<t, i>> : i \in index[t] } : t \in DOMAIN index }

\* the (token, id) pairs of the stored items
StoredTokenPairs ==
    UNION { { <<t, i>> : t \in ItemTokens(products[i]) } : i \in DOMAIN products }

\* the (key, id) pairs the name index holds
TreePairs == UNION { { <<k, i>> : i \in Range(tree[k]) } : k \in DOMAIN tree }

\* C10: id i is under token t in the inverted index iff i is stored and t
\* is a token of its name, brand or category; i is under key k in the name
\* index iff i is stored and k is its lower-cased name, and then once; so
\* the ids the two searches get from their index all resolve.
C10_IndexSync ==
    /\ IndexPairs = StoredTokenPairs
    /\ TreePairs = { <<to_lowercase(products[i].name), i>> : i \in DOMAIN products }
    /\ \A k \in DOMAIN tree : Cardinality(Range(tree[k])) = Len(tree[k])
    /\ (IsSearchTokens \/ IsSearchPrefix) =>
          /\ Range(ids) \subseteq DOMAIN products
          /\ Len(out) = Len(ids)
          /\ \A k \in 1..Len(ids) : out[k] = products[ids[k]]

C10_Witness ==
    /\ IsSearchTokens
    /\ Len(ids) = 2
    /\ adj # <<>>

====
